---- MODULE Spec2Model ----
(***************************************************************************)
(* Model of scripts/fast_extract.py (VAMSeek AI): one run of main(), the   *)
(* three grid generators it dispatches to (extract_grid_frames,            *)
(* generate_ai_assets, extract_single_grid) and the external tools         *)
(* (ffprobe, ffmpeg) whose success or failure is chosen by the             *)
(* environment.                                                            *)
(*                                                                         *)
(* Times (durations, intervals, start times) are exact rationals on a      *)
(* common grid of TicksPerSecond ticks per second and are held as integer  *)
(* tick counts; the quotient duration / interval is therefore exact.  The  *)
(* rounding of IEEE-754 double division is not represented.                *)
(***************************************************************************)
EXTENDS Integers, Sequences, FiniteSets, TLC

(* ---------------------------- bounds ---------------------------------- *)
TicksPerSecond == 2
MaxDuration == 7
MaxInterval == 3
MaxCols == 2
MaxZoomDuration == 2

(* ----------------------- program constants ---------------------------- *)
DefaultCellWidth == 192
DefaultCellHeight == 108
ZoomCols == 5

VARIABLES
    args,          \* argparse namespace of main()
    video_exists,  \* os.path.exists(args.video_path)
    pc,            \* position of main()
    branch,        \* the mode branch main() entered ("none" before dispatch)
    error,         \* error message / exception that ended the run ("" = none)
    video_info,    \* get_video_info() result used by main (duration)
    result,        \* main's result dict (string keys)
    calls,         \* external tool invocations of this run, in order
    gen,           \* locals of the generator that ran (name, duration, interval, ...)
    start_frame,   \* loop variable of extract_grid_frames
    grid_index,    \* extract_grid_frames: grid_index
    jobs,          \* rasterizer commands issued by extract_grid_frames, in order
    grid_images,   \* extract_grid_frames: grid_images
    metadata       \* contents of metadata.json (empty = not written)

vars == <<args, video_exists, pc, branch, error, video_info, result, calls, gen,
          start_frame, grid_index, jobs, grid_images, metadata>>

(* ------------------------- pure helpers ------------------------------- *)
Abs(x) == IF x < 0 THEN -x ELSE x

Min(a, b) == IF a < b THEN a ELSE b

\* int(n / d): the quotient truncated toward zero (d # 0)
Trunc(n, d) ==
    IF (n >= 0) = (d > 0) THEN Abs(n) \div Abs(d) ELSE -(Abs(n) \div Abs(d))

\* the count without the sample at the trailing boundary
TotalFramesTruncated(duration, interval) == Trunc(duration, interval)

\* total_frames = int(duration / interval) + 1
TotalFrames(duration, interval) == Trunc(duration, interval) + 1

\* frames_per_grid = cols * cols
FramesPerGrid(cols) == cols * cols

\* end_frame = min(start_frame + frames_per_grid, total_frames)
EndFrame(start, frames_per_grid, total_frames) ==
    Min(start + frames_per_grid, total_frames)

\* rows by floor instead of ceiling: a partial last row is dropped
ActualRowsFloor(actual_frames, cols) == actual_frames \div cols

\* actual_rows = (actual_frames + cols - 1) // cols
ActualRows(actual_frames, cols) == (actual_frames + cols - 1) \div cols

\* the start frame taken as the start time, the interval left out
StartTimeInFrames(start, interval) == start

\* start_time = start_frame * interval
StartTime(start, interval) == start * interval

\* grid_duration = actual_frames * interval
GridDuration(actual_frames, interval) == actual_frames * interval

\* os.path.join(output_dir, f'grid_{grid_index:04d}.jpg'): the directory is
\* fixed for the run and the zero-padded decimal rendering is injective, so
\* the path is the pair of the stem and the index it was formatted from
GridPath(index) == <<"grid_", index>>

\* the empty dict
EmptyDict == [k \in {} |-> 0]

NoGen == [name |-> "none", duration |-> 0, interval |-> 0, cols |-> 0,
          total_frames |-> 0, rows |-> 0]

(* --------------------------- inputs ----------------------------------- *)
Intervals == (-1) .. MaxInterval
ColsSet == 1 .. MaxCols
Durations == 0 .. MaxDuration
ZoomDurations == (-1) .. MaxZoomDuration
ZoomStarts == {{}, {0}}          \* {} is None

ArgsSet ==
    [interval : Intervals, grid_cols : ColsSet,
     cell_width : {0, DefaultCellWidth}, cell_height : {0, DefaultCellHeight},
     audio_only : BOOLEAN, grid_only : BOOLEAN,
     zoom : BOOLEAN, zoom_start : ZoomStarts, zoom_duration : ZoomDurations,
     ai_mode : BOOLEAN, audio_ai : BOOLEAN]

Init ==
    /\ args \in ArgsSet
    /\ video_exists \in BOOLEAN
    /\ pc = "start"
    /\ branch = "none"
    /\ error = ""
    /\ video_info = EmptyDict
    /\ result = EmptyDict
    /\ calls = <<>>
    /\ gen = NoGen
    /\ start_frame = 0
    /\ grid_index = 0
    /\ jobs = <<>>
    /\ grid_images = <<>>
    /\ metadata = EmptyDict

(* ------------------------- main(): prologue --------------------------- *)
\* lines 264-270: existence check of the video, creation of the output dir
CheckVideo ==
    /\ pc = "start"
    /\ IF ~video_exists
         THEN pc' = "exit1" /\ error' = "Video not found"
         ELSE pc' = "probe" /\ error' = error
    /\ UNCHANGED <<branch, args, video_exists, video_info, result, calls, gen,
                   start_frame, grid_index, jobs, grid_images, metadata>>

\* lines 272-279: get_video_info (ffprobe) and the initial result dict
Probe ==
    /\ pc = "probe"
    /\ calls' = Append(calls, "ffprobe")
    /\ \E ok \in BOOLEAN :
         IF ~ok
           THEN /\ pc' = "raised" /\ error' = "RuntimeError"
                /\ UNCHANGED <<video_info, result>>
           ELSE \E d \in Durations :
                /\ video_info' = [duration |-> d]
                /\ result' = [duration |-> d]
                /\ pc' = "dispatch" /\ error' = error
    /\ UNCHANGED <<branch, args, video_exists, gen, start_frame, grid_index, jobs,
                   grid_images, metadata>>

(* ------------------------- main(): dispatch --------------------------- *)
\* the chain with the AI branch tested ahead of the zoom branch
ModeOfAiFirst(a) ==
    IF a.ai_mode THEN "ai"
    ELSE IF a.zoom THEN "zoom"
    ELSE IF a.audio_ai THEN "audio_ai"
    ELSE "default"

\* the chain of "if args.zoom: ... return", "if args.ai_mode: ... return",
\* "if args.audio_ai: ... return", then the default path
ModeOf(a) ==
    IF a.zoom THEN "zoom"
    ELSE IF a.ai_mode THEN "ai"
    ELSE IF a.audio_ai THEN "audio_ai"
    ELSE "default"

\* "if not args.grid_only:" guards the audio extraction of the default path
RunsAudio(a) == ~a.grid_only

\* "if not args.audio_only:" guards the grid extraction of the default path
RunsGrid(a) == ~a.audio_only

\* the dict returned by extract_single_grid
SingleGridInfo(start_time, duration, interval, total_frames, cols, rows) ==
    [path |-> "zoom_grid.jpg", start_time |-> start_time,
     duration |-> duration, interval |-> interval,
     total_frames |-> total_frames, cols |-> cols, rows |-> rows]

\* zoom mode (lines 281-299) with extract_single_grid (lines 208-242)
ZoomMode ==
    /\ pc = "dispatch"
    /\ ModeOf(args) = "zoom"
    /\ branch' = "zoom"
    /\ IF args.zoom_start = {}
         THEN /\ pc' = "exit1" /\ error' = "--zoom-start required"
              /\ UNCHANGED <<result, calls, gen>>
         ELSE LET st == CHOOSE t \in args.zoom_start : TRUE
                  d == args.zoom_duration
                  i == TicksPerSecond            \* interval=1.0
                  tf == TotalFrames(d, i)
                  rows == ActualRows(tf, ZoomCols)
              IN  /\ gen' = [name |-> "extract_single_grid", duration |-> d,
                             interval |-> i, cols |-> ZoomCols,
                             total_frames |-> tf, rows |-> rows]
                  /\ calls' = Append(calls, "ffmpeg:zoom_grid")
                  /\ \E ok \in BOOLEAN :
                       IF ~ok
                         THEN /\ pc' = "raised" /\ error' = "RuntimeError"
                              /\ result' = result
                         ELSE /\ result' = result @@
                                   [zoom_grid |->
                                      SingleGridInfo(st, d, i, tf, ZoomCols, rows)]
                              /\ pc' = "done" /\ error' = error
    /\ UNCHANGED <<args, video_exists, video_info, start_frame, grid_index,
                   jobs, grid_images, metadata>>

\* the dict returned by generate_ai_assets
AiAssets(duration, interval, total_frames, cols, rows) ==
    [audio_path |-> "audio.mp3", grid_path |-> "grid.jpg",
     duration |-> duration, interval |-> interval,
     total_frames |-> total_frames, grid_cols |-> cols, grid_rows |-> rows]

\* AI mode (lines 301-320) with generate_ai_assets (lines 164-205), which
\* probes the same file a second time and so reads the same duration
AiMode ==
    /\ pc = "dispatch"
    /\ ModeOf(args) = "ai"
    /\ branch' = "ai"
    /\ \E probe_ok \in BOOLEAN, ok \in BOOLEAN :
         LET d == video_info.duration
             i == args.interval
             cols == args.grid_cols
         IN  IF ~probe_ok
               THEN /\ calls' = Append(calls, "ffprobe")
                    /\ pc' = "raised" /\ error' = "RuntimeError"
                    /\ UNCHANGED <<result, gen, metadata>>
             ELSE IF i = 0
               THEN /\ calls' = Append(calls, "ffprobe")
                    /\ pc' = "raised" /\ error' = "ZeroDivisionError"
                    /\ UNCHANGED <<result, gen, metadata>>
             ELSE LET tf == TotalFrames(d, i)
                      rows == ActualRows(tf, cols)
                      updated == [mode |-> "ai"] @@
                                 AiAssets(d, i, tf, cols, rows) @@ result
                  IN  /\ calls' = calls \o <<"ffprobe", "ffmpeg:ai_assets">>
                      /\ gen' = [name |-> "generate_ai_assets", duration |-> d,
                                 interval |-> i, cols |-> cols,
                                 total_frames |-> tf, rows |-> rows]
                      /\ IF ~ok
                           THEN /\ pc' = "raised" /\ error' = "RuntimeError"
                                /\ UNCHANGED <<result, metadata>>
                           ELSE /\ metadata' = updated
                                /\ result' = updated @@
                                             [metadata_path |-> "metadata.json"]
                                /\ pc' = "done" /\ error' = error
    /\ UNCHANGED <<args, video_exists, video_info, start_frame, grid_index,
                   jobs, grid_images>>

\* AI-audio-only mode (lines 322-337) with extract_audio_ai_optimized
AudioAiMode ==
    /\ pc = "dispatch"
    /\ ModeOf(args) = "audio_ai"
    /\ branch' = "audio_ai"
    /\ calls' = Append(calls, "ffmpeg:audio_ai")
    /\ \E ok \in BOOLEAN :
         IF ~ok
           THEN /\ pc' = "raised" /\ error' = "RuntimeError"
                /\ UNCHANGED <<result, metadata>>
           ELSE LET updated == result @@ [audio_path |-> "audio.mp3",
                                          audio_ext |-> "mp3",
                                          mode |-> "audio_ai"]
                IN  /\ metadata' = updated
                    /\ result' = updated @@ [metadata_path |-> "metadata.json"]
                    /\ pc' = "done" /\ error' = error
    /\ UNCHANGED <<args, video_exists, video_info, gen, start_frame,
                   grid_index, jobs, grid_images>>

\* default path, audio part (lines 339-344) with extract_audio_fast
DefaultAudio ==
    /\ pc = "dispatch"
    /\ ModeOf(args) = "default"
    /\ branch' = "default"
    /\ IF RunsAudio(args)
         THEN /\ calls' = Append(calls, "ffmpeg:audio")
              /\ \E ok \in BOOLEAN :
                   IF ~ok
                     THEN /\ pc' = "raised" /\ error' = "RuntimeError"
                          /\ result' = result
                     ELSE /\ result' = result @@ [audio_path |-> "audio",
                                                  audio_ext |-> "ext"]
                          /\ pc' = "grid" /\ error' = error
         ELSE /\ pc' = "grid"
              /\ UNCHANGED <<calls, result, error>>
    /\ UNCHANGED <<args, video_exists, video_info, gen, start_frame,
                   grid_index, jobs, grid_images, metadata>>

(* ------------------------ extract_grid_frames ------------------------- *)
\* default path, "if not args.audio_only:" (line 347) and the entry of
\* extract_grid_frames (lines 114-126); duration is passed by main, so the
\* function does not call ffprobe itself
GridStart ==
    /\ pc = "grid"
    /\ IF ~RunsGrid(args)
         THEN /\ pc' = "write"
              /\ UNCHANGED <<error, gen, start_frame, grid_index, grid_images>>
         ELSE IF args.interval = 0
           THEN /\ pc' = "raised" /\ error' = "ZeroDivisionError"
                /\ UNCHANGED <<gen, start_frame, grid_index, grid_images>>
           ELSE /\ gen' = [name |-> "extract_grid_frames",
                           duration |-> video_info.duration,
                           interval |-> args.interval,
                           cols |-> args.grid_cols,
                           total_frames |->
                               TotalFrames(video_info.duration, args.interval),
                           rows |-> 0]
                /\ start_frame' = 0
                /\ grid_index' = 0
                /\ grid_images' = <<>>
                /\ pc' = "loop" /\ error' = error
    /\ UNCHANGED <<branch, args, video_exists, video_info, result, calls, jobs,
                   metadata>>

\* the ffmpeg command of one page (lines 128-149)
PageJob(start, index, total_frames, interval, cols) ==
    LET end_frame == EndFrame(start, FramesPerGrid(cols), total_frames)
        actual_frames == end_frame - start
    IN  [start_frame |-> start, end_frame |-> end_frame,
         ss |-> StartTime(start, interval),
         t |-> GridDuration(actual_frames, interval),
         cols |-> cols, rows |-> ActualRows(actual_frames, cols),
         output_path |-> GridPath(index)]

\* the descriptor appended to grid_images (lines 153-158)
PageDescriptor(job) ==
    [path |-> job.output_path, start_frame |-> job.start_frame,
     end_frame |-> job.end_frame, start_time |-> job.ss]

\* one iteration of "for start_frame in range(0, total_frames, frames_per_grid)"
\* (lines 127-159); ok is "returncode == 0 and os.path.exists(output_path)"
GridPage ==
    /\ pc = "loop"
    /\ start_frame < gen.total_frames
    /\ LET job == PageJob(start_frame, grid_index, gen.total_frames,
                          gen.interval, gen.cols)
       IN  /\ jobs' = Append(jobs, job)
           /\ calls' = Append(calls, "ffmpeg:grid")
           /\ \E ok \in BOOLEAN :
                IF ok
                  THEN /\ grid_images' = Append(grid_images, PageDescriptor(job))
                       /\ grid_index' = grid_index + 1
                  ELSE UNCHANGED <<grid_images, grid_index>>
    /\ start_frame' = start_frame + FramesPerGrid(gen.cols)
    /\ UNCHANGED <<branch, args, video_exists, pc, error, video_info, result, gen,
                   metadata>>

\* the configuration main records next to the grids (lines 357-362)
GridConfig(a) ==
    [interval |-> a.interval, cols |-> a.grid_cols,
     cell_width |-> a.cell_width, cell_height |-> a.cell_height]

\* loop exhausted: "return grid_images" (line 161) and lines 356-362 of main
GridReturn ==
    /\ pc = "loop"
    /\ start_frame >= gen.total_frames
    /\ result' = result @@ [grids |-> grid_images,
                            grid_config |-> GridConfig(args)]
    /\ pc' = "write"
    /\ UNCHANGED <<branch, args, video_exists, error, video_info, calls, gen,
                   start_frame, grid_index, jobs, grid_images, metadata>>

\* default path, lines 364-372: metadata.json and the printed result
WriteMetadata ==
    /\ pc = "write"
    /\ metadata' = result
    /\ result' = result @@ [metadata_path |-> "metadata.json"]
    /\ pc' = "done"
    /\ UNCHANGED <<branch, args, video_exists, error, video_info, calls, gen,
                   start_frame, grid_index, jobs, grid_images>>

Next ==
    \/ CheckVideo
    \/ Probe
    \/ ZoomMode
    \/ AiMode
    \/ AudioAiMode
    \/ DefaultAudio
    \/ GridStart
    \/ GridPage
    \/ GridReturn
    \/ WriteMetadata

Spec == Init /\ [][Next]_vars

TypeOK ==
    /\ args \in ArgsSet
    /\ pc \in {"start", "probe", "dispatch", "grid", "loop", "write",
               "done", "exit1", "raised"}
    /\ branch \in {"none", "zoom", "ai", "audio_ai", "default"}
    /\ error \in {"", "Video not found", "--zoom-start required",
                  "RuntimeError", "ZeroDivisionError"}
    /\ grid_index = Len(grid_images)
    /\ Len(grid_images) <= Len(jobs)
    /\ (pc \in {"exit1", "raised"}) = (error # "")

(* ------------------- CoordinateMapper / GridPartitioner --------------- *)
\* pageCapacity defaults to cols x cols
PageCapacity(cols) == cols * cols

\* round(n / d) for n >= 0, d > 0: nearest integer, halves to the even one
Round(n, d) ==
    LET q == n \div d
        r == n % d
    IN  IF 2 * r < d THEN q
        ELSE IF 2 * r > d THEN q + 1
        ELSE IF q % 2 = 0 THEN q ELSE q + 1

\* timeAt(frameIndex, config) = frameIndex x interval
timeAt(frameIndex, interval) == frameIndex * interval

\* frameToPageCoordinate(frameIndex, config) = (pageIndex, row, column)
frameToPageCoordinate(frameIndex, cols) ==
    LET offset == frameIndex % PageCapacity(cols)
    IN  <<frameIndex \div PageCapacity(cols), offset \div cols, offset % cols>>

\* coordinateToTime(pageIndex, row, column, config)
coordinateToTime(pageIndex, row, column, interval, cols) ==
    timeAt(pageIndex * PageCapacity(cols) + row * cols + column, interval)

\* timeToCoordinate(timestamp, config)
timeToCoordinate(timestamp, interval, cols) ==
    frameToPageCoordinate(Round(timestamp, interval), cols)

(* ----------------------------- claims --------------------------------- *)
Ran(op) == \E k \in 1 .. Len(calls) : calls[k] = op

Terminal == pc \in {"done", "exit1", "raised"}

\* extract_grid_frames has returned its page list to main
GridReturned == pc \in {"write", "done"} /\ "grids" \in DOMAIN result

\* C1: whenever a generator ran with duration >= 0 and interval > 0, its
\* sample count n is floor(duration / interval) + 1, i.e. n >= 1 and
\* (n - 1) * interval <= duration < n * interval; duration 30 with interval
\* 10 gives 4 and duration 0 gives 1; the pages planned by
\* extract_grid_frames end at that count.
C1_SampleCount ==
    /\ TotalFrames(30, 10) = 4
    /\ \A i \in 1 .. MaxInterval : TotalFrames(0, i) = 1
    /\ (gen.name # "none" /\ gen.duration >= 0 /\ gen.interval > 0) =>
          /\ gen.total_frames >= 1
          /\ (gen.total_frames - 1) * gen.interval <= gen.duration
          /\ gen.duration < gen.total_frames * gen.interval
          /\ (gen.duration % gen.interval = 0 =>
                (gen.total_frames - 1) * gen.interval = gen.duration)
          /\ (gen.name = "extract_grid_frames" /\ pc \in {"write", "done"} =>
                /\ jobs # <<>>
                /\ jobs[Len(jobs)].end_frame = gen.total_frames)

\* a generator ran on a duration that is an exact positive multiple of the
\* interval and counted the instant at the duration itself
C1_Witness ==
    /\ gen.name = "extract_grid_frames"
    /\ gen.interval = 2 /\ gen.duration = 6 /\ gen.total_frames = 4
    /\ pc = "done"

\* C2 (as stated): once extract_grid_frames has returned for duration > 0,
\* interval > 0, the returned pages start at 0, abut, and end at the sample
\* count.
C2_PagesPartition ==
    (GridReturned /\ gen.duration > 0 /\ gen.interval > 0) =>
        LET g == result.grids
        IN  /\ Len(g) >= 1
            /\ g[1].start_frame = 0
            /\ g[Len(g)].end_frame = gen.total_frames
            /\ \A k \in 1 .. Len(g) - 1 : g[k + 1].start_frame = g[k].end_frame
            /\ \A k \in 1 .. Len(g) : g[k].start_frame < g[k].end_frame

\* C3: for every frame f of every page planned by extract_grid_frames
\* (interval > 0), timeToCoordinate(timeAt(f)) = frameToPageCoordinate(f),
\* that coordinate names the page's ordinal and the cell's offset in it,
\* coordinateToTime of it is f * interval, and this is the page's start time
\* plus the cell offset times the interval; frame 25 with cols 5 is (1,0,0)
\* and maps to 250 at interval 10.
C3_InverseLaw ==
    /\ frameToPageCoordinate(25, 5) = <<1, 0, 0>>
    /\ coordinateToTime(1, 0, 0, 10, 5) = 250
    /\ (gen.name = "extract_grid_frames" /\ gen.interval > 0) =>
          \A k \in 1 .. Len(jobs) :
            \A f \in jobs[k].start_frame .. jobs[k].end_frame - 1 :
              LET co == frameToPageCoordinate(f, gen.cols)
                  cell == f - jobs[k].start_frame
              IN  /\ timeToCoordinate(timeAt(f, gen.interval),
                                      gen.interval, gen.cols) = co
                  /\ co[1] = k - 1
                  /\ co[2] * gen.cols + co[3] = cell
                  /\ coordinateToTime(co[1], co[2], co[3],
                                      gen.interval, gen.cols)
                        = f * gen.interval
                  /\ jobs[k].ss + cell * gen.interval = f * gen.interval

\* a third page was planned at an interval of several ticks
C3_Witness ==
    /\ gen.name = "extract_grid_frames"
    /\ gen.interval = 2 /\ gen.cols = 1
    /\ Len(jobs) = 3
    /\ jobs[3].start_frame = 2 /\ jobs[3].ss = 4

\* C4 (as stated): when extract_grid_frames has returned normally (for an
\* interval > 0), every frame of [0, total_frames) lies in one of the
\* returned pages.
C4_NoPartialPageSet ==
    (GridReturned /\ gen.interval > 0) =>
        \A f \in 0 .. gen.total_frames - 1 :
            \E k \in 1 .. Len(result.grids) :
                /\ result.grids[k].start_frame <= f
                /\ f < result.grids[k].end_frame

\* interval <= 0, non-positive cell dimensions, or a zoom request with a
\* negative duration or without a start time
Malformed(a) ==
    \/ a.interval <= 0
    \/ a.cell_width <= 0
    \/ a.cell_height <= 0
    \/ (a.zoom /\ (a.zoom_start = {} \/ a.zoom_duration < 0))

\* C5 (as stated): a run with malformed parameters invokes no external tool
\* and does not complete normally.
C5_RejectedUpFront ==
    Malformed(args) => (calls = <<>> /\ pc # "done")

\* C6 (as stated): no two rasterizer jobs of one run of extract_grid_frames
\* (interval > 0) have the same output path.
C6_DistinctOutputPaths ==
    gen.interval > 0 =>
        \A j, k \in 1 .. Len(jobs) :
            j # k => jobs[j].output_path # jobs[k].output_path

ProducedGridImage ==
    \/ "zoom_grid" \in DOMAIN result
    \/ "grid_path" \in DOMAIN result
    \/ ("grids" \in DOMAIN result /\ result.grids # <<>>)

HasSamplingConfig(md) ==
    /\ "duration" \in DOMAIN md
    /\ \/ /\ "grid_config" \in DOMAIN md
          /\ {"interval", "cols", "cell_width", "cell_height"}
                \subseteq DOMAIN md.grid_config
       \/ /\ {"interval", "cell_width", "cell_height"} \subseteq DOMAIN md
          /\ ("cols" \in DOMAIN md \/ "grid_cols" \in DOMAIN md)

\* C7 (as stated): a run (with well-formed parameters) that completed after
\* producing a grid image has written metadata.json with the duration,
\* interval, cols, cell width and cell height.
C7_ConfigPersisted ==
    (pc = "done" /\ ProducedGridImage /\ ~Malformed(args)) =>
        HasSamplingConfig(metadata)

\* C8: every planned page has rows = ceil(frames / cols), 1 <= rows <= cols,
\* rows < cols only on the final page, and 0 <= rows * cols - frames < cols;
\* for duration 0 the plan is one page of one row holding one frame.
C8_RowsOfPage ==
    /\ \A k \in 1 .. Len(jobs) :
         LET frames == jobs[k].end_frame - jobs[k].start_frame
             rows == jobs[k].rows
             blank == rows * jobs[k].cols - frames
         IN  /\ frames >= 1
             /\ rows * jobs[k].cols >= frames
             /\ (rows - 1) * jobs[k].cols < frames
             /\ 1 <= rows /\ rows <= jobs[k].cols
             /\ (rows < jobs[k].cols => jobs[k].end_frame = gen.total_frames)
             /\ 0 <= blank /\ blank < jobs[k].cols
    /\ (gen.name = "extract_grid_frames" /\ gen.duration = 0
          /\ pc \in {"write", "done"}) =>
            /\ Len(jobs) = 1
            /\ jobs[1].rows = 1
            /\ jobs[1].start_frame = 0 /\ jobs[1].end_frame = 1

\* a final page after a full one, with fewer rows than cols and blank cells
C8_Witness ==
    /\ Len(jobs) = 2
    /\ jobs[1].rows = 2 /\ jobs[1].cols = 2
    /\ jobs[2].start_frame = 4 /\ jobs[2].end_frame = 5
    /\ jobs[2].rows = 1
    /\ pc = "done"

\* C9 (as stated): the index N in the path grid_N of every returned page
\* descriptor (interval > 0) satisfies start_frame = N * cols * cols, and
\* every frame of the page has closed-form page index N.
C9_IndexIsPageIndex ==
    gen.interval > 0 =>
      \A k \in 1 .. Len(grid_images) :
        LET N == grid_images[k].path[2]
        IN  /\ grid_images[k].start_frame = N * gen.cols * gen.cols
            /\ \A f \in grid_images[k].start_frame ..
                        grid_images[k].end_frame - 1 :
                   f \div (gen.cols * gen.cols) = N

GridExtractionRan == gen.name = "extract_grid_frames"

AudioExtractionRan == Ran("ffmpeg:audio")

\* the extraction steps that belong to each mode
StepsOf(mode) ==
    CASE mode = "zoom" -> {"ffmpeg:zoom_grid"}
      [] mode = "ai" -> {"ffmpeg:ai_assets"}
      [] mode = "audio_ai" -> {"ffmpeg:audio_ai"}
      [] mode = "default" -> {"ffmpeg:audio", "ffmpeg:grid"}
      [] OTHER -> {}

\* the mode the flags select: zoom, then AI, then AI-audio-only, then default
SelectedMode ==
    CASE args.zoom -> "zoom"
      [] ~args.zoom /\ args.ai_mode -> "ai"
      [] ~args.zoom /\ ~args.ai_mode /\ args.audio_ai -> "audio_ai"
      [] OTHER -> "default"

\* the part of C10 that holds in every run, failed or not: only the branch
\* the precedence selects is ever entered, only its extraction steps run,
\* audio extraction runs only without --grid-only and grid extraction only
\* without --audio-only
C10_OnlySelected ==
    /\ branch # "none" => branch = SelectedMode
    /\ \A k \in 1 .. Len(calls) :
          calls[k] # "ffprobe" => calls[k] \in StepsOf(SelectedMode)
    /\ AudioExtractionRan => ~args.grid_only
    /\ GridExtractionRan => (SelectedMode = "default" /\ ~args.audio_only)

\* the part of C10 about what does run, for a given set of final states
C10_Runs ==
    /\ branch = SelectedMode
    /\ (SelectedMode = "default" =>
          /\ AudioExtractionRan <=> ~args.grid_only
          /\ GridExtractionRan <=> ~args.audio_only
          /\ (args.grid_only /\ args.audio_only =>
                /\ \A k \in 1 .. Len(calls) : calls[k] = "ffprobe"
                /\ "duration" \in DOMAIN metadata))

\* C10 (as stated): in any run of main, exactly one mode branch executes ...
C10_AnyRun ==
    C10_OnlySelected /\ (Terminal => C10_Runs)

\* C10 (amended): in any run of main that completes normally, exactly one
\* mode branch executed, chosen with the precedence zoom, AI, AI-audio-only,
\* default, with audio extraction iff --grid-only is unset and grid
\* extraction iff --audio-only is unset in the default mode; in every run,
\* completed or not, nothing outside the selected mode runs.
C10_CompletedRun ==
    C10_OnlySelected /\ (pc = "done" => C10_Runs)

\* a default run with both --audio-only and --grid-only completed: no
\* extraction, metadata written
C10_Witness ==
    /\ pc = "done" /\ branch = "default"
    /\ args.audio_only /\ args.grid_only
    /\ args.ai_mode = FALSE /\ args.audio_ai = FALSE
    /\ calls = <<"ffprobe">>
    /\ "duration" \in DOMAIN metadata
====
